---- MODULE Spec2Model ----
(***************************************************************************)
(* Form_Summary: the ADT-1 extraction pipeline (extractor.py), the summary *)
(* formatter (summary.py) and the two batch commands, as a state machine.  *)
(*                                                                         *)
(* Python strings are TLA+ strings (TLC evaluates Len, SubSeq and \o on    *)
(* them); a Python dict that is iterated is a sequence of <<key, value>>   *)
(* pairs with distinct keys, in insertion order.                           *)
(***************************************************************************)
EXTENDS Naturals, Sequences, FiniteSets, TLC

VARIABLES
    pdf,                  \* the document being read: [fields, text]
    pc,                   \* position within extract_for_llm_summary and after
    form_fields,          \* extract_form_fields_pypdf2()
    raw_text,             \* get_raw_text()
    cleaned_fields,       \* clean_and_map_form_fields(form_fields)
    consolidated_fields,  \* consolidate_duplicate_fields(cleaned_fields)
    llm_data,             \* create_llm_ready_summary_data(...)
    final_data,           \* extract_for_llm_summary()
    summary,              \* Summary.generate_summary(): [ok, text]
    pdf_files,            \* batch: the documents of pdf/, in processing order
    bpc,                  \* batch: position of the batch commands
    idx,                  \* batch: loop index of the running command
    structured_dir,       \* batch: structured_data/, stem -> file
    summary_dir,          \* batch: summary/, stem -> text
    attempts,             \* batch: how often each loop body began, per command
    failed                \* batch: the items whose loop body raised, per command

vars == <<pdf, pc, form_fields, raw_text, cleaned_fields, consolidated_fields,
          llm_data, final_data, summary, pdf_files, bpc, idx, structured_dir,
          summary_dir, attempts, failed>>

single_vars == <<pdf, pc, form_fields, raw_text, cleaned_fields,
                 consolidated_fields, llm_data, final_data, summary>>

batch_vars == <<pdf_files, bpc, idx, structured_dir, summary_dir, attempts,
                failed>>

(***************************************************************************)
(* Bounds of the model.                                                    *)
(***************************************************************************)
MaxFields == 2
MaxTableFields == 1
MaxFrags == 3
MaxDocs == 2

(***************************************************************************)
(* Strings.                                                                *)
(***************************************************************************)
Ch(s, i) == SubSeq(s, i, i)

\* the element of a one-element set: {f(x) : x \in {e}} computes e once for
\* all the places where f reads x
Only(S) == CHOOSE x \in S : TRUE

\* the letters str.lower() changes, within ASCII
LowerMap ==
    "A" :> "a" @@ "B" :> "b" @@ "C" :> "c" @@ "D" :> "d" @@ "E" :> "e" @@
    "F" :> "f" @@ "G" :> "g" @@ "H" :> "h" @@ "I" :> "i" @@ "J" :> "j" @@
    "K" :> "k" @@ "L" :> "l" @@ "M" :> "m" @@ "N" :> "n" @@ "O" :> "o" @@
    "P" :> "p" @@ "Q" :> "q" @@ "R" :> "r" @@ "S" :> "s" @@ "T" :> "t" @@
    "U" :> "u" @@ "V" :> "v" @@ "W" :> "w" @@ "X" :> "x" @@ "Y" :> "y" @@
    "Z" :> "z"

\* str.lower() of one character
LowerCh(c) == IF c \in DOMAIN LowerMap THEN LowerMap[c] ELSE c

RECURSIVE Lower(_)
\* str.lower(), by halves
Lower(s) ==
    IF Len(s) = 0 THEN ""
    ELSE IF Len(s) = 1 THEN LowerCh(s)
    ELSE Lower(SubSeq(s, 1, Len(s) \div 2))
         \o Lower(SubSeq(s, Len(s) \div 2 + 1, Len(s)))

\* t in s
Contains(s, t) ==
    \E i \in 1..(Len(s) + 1) :
        i + Len(t) - 1 <= Len(s) /\ SubSeq(s, i, i + Len(t) - 1) = t

\* s.endswith(t)
EndsWith(s, t) ==
    Len(s) >= Len(t) /\ SubSeq(s, Len(s) - Len(t) + 1, Len(s)) = t

IsDigit(c) == c \in {"0", "1", "2", "3", "4", "5", "6", "7", "8", "9"}

IsSpace(c) == c \in {" ", "\t", "\n", "\r"}

\* every character of s[i..j] is a digit
DigitsAt(s, i, j) == j <= Len(s) /\ \A k \in i..j : IsDigit(Ch(s, k))

RECURSIVE LStrip(_)
LStrip(s) == IF Len(s) > 0 /\ IsSpace(Ch(s, 1)) THEN LStrip(Tail(s)) ELSE s

RECURSIVE RStrip(_)
RStrip(s) ==
    IF Len(s) > 0 /\ IsSpace(Ch(s, Len(s)))
    THEN RStrip(SubSeq(s, 1, Len(s) - 1))
    ELSE s

\* str.strip()
Strip(s) == RStrip(LStrip(s))

(***************************************************************************)
(* Dicts in insertion order.                                               *)
(***************************************************************************)
Keys(d) == {d[i][1] : i \in 1..Len(d)}

\* key in d
Has(d, k) == k \in Keys(d)

\* d.get(k, default)
Get(d, k, default) ==
    IF Has(d, k)
    THEN d[CHOOSE i \in 1..Len(d) : d[i][1] = k][2]
    ELSE default

\* d.setdefault(k, v): a present key keeps its value
Put_KeepFirst(d, k, v) == IF Has(d, k) THEN d ELSE Append(d, <<k, v>>)

\* d[k] = v: a present key keeps its place, a new key goes last
Put(d, k, v) ==
    IF Has(d, k)
    THEN [i \in 1..Len(d) |-> IF d[i][1] = k THEN <<k, v>> ELSE d[i]]
    ELSE Append(d, <<k, v>>)

\* d1 == d2 in Python: the same keys with the same values, in any order
DictEq(d1, d2) == {d1[i] : i \in 1..Len(d1)} = {d2[i] : i \in 1..Len(d2)}

(***************************************************************************)
(* Extractor.__init__: the field mapping table.                            *)
(***************************************************************************)
field_mapping ==
    "CIN_C" :> "company_cin" @@
    "CompanyName_C" :> "company_name" @@
    "EmailId_C" :> "company_email" @@
    "GLN_C" :> "company_gln" @@
    "permaddress1a_C" :> "company_address_line1" @@
    "permaddress2a_C" :> "company_address_line2" @@
    "permaddress2b_C" :> "company_address_line2_alt" @@
    "permaddress3a_C" :> "company_address_line3" @@
    "cityname_C" :> "company_city" @@
    "City_C" :> "company_city_alt" @@
    "pincode_C" :> "company_pincode" @@
    "Pin_C" :> "company_pincode_alt" @@
    "statename_C" :> "company_state" @@
    "State_P" :> "company_state_alt" @@
    "countryname_C" :> "company_country" @@
    "Country_C" :> "company_country_alt" @@
    "PAN_C" :> "auditor_pan" @@
    "NameAuditorFirm_C" :> "auditor_firm_name" @@
    "MemberShNum" :> "auditor_membership_number" @@
    "AuditorNumber" :> "number_of_auditors" @@
    "auditoraddress1a_C" :> "auditor_address_line1" @@
    "auditoraddress2a_C" :> "auditor_address_line2" @@
    "auditoraddress3a_C" :> "auditor_address_line3" @@
    "auditorcityname_C" :> "auditor_city" @@
    "auditorpincode_C" :> "auditor_pincode" @@
    "auditorstatename_C" :> "auditor_state" @@
    "auditorcountryname_C" :> "auditor_country" @@
    "auditoremailid_C" :> "auditor_email" @@
    "email" :> "auditor_email_alt" @@
    "appointmentdate_C" :> "appointment_date" @@
    "agmdate_C" :> "agm_date" @@
    "DateAnnualGenMeet_D" :> "agm_date_alt" @@
    "periodfrom_C" :> "period_from" @@
    "periodto_C" :> "period_to" @@
    "DateOfAccAuditedFrom_D" :> "audit_period_from" @@
    "DateOfAccAuditedTo_D" :> "audit_period_to" @@
    "nofinyears_C" :> "number_of_financial_years" @@
    "NumOfFinanYearApp" :> "number_of_financial_years_alt" @@
    "CurrDate" :> "current_date" @@
    "current_date" :> "form_date" @@
    "DateOfAppSect_D" :> "appointment_section_date" @@
    "DateReceipt_D" :> "receipt_date" @@
    "DINOfDir_C" :> "director_din" @@
    "ResoNum" :> "resolution_number" @@
    "serialNumber" :> "certificate_serial_number" @@
    "Attachment_C" :> "attachments"

(***************************************************************************)
(* Extractor.clean_and_map_form_fields                                     *)
(***************************************************************************)
\* the start of the trailing "[digits]" of s when s ends in one, else 0
IndexStart(s) ==
    IF Len(s) >= 3 /\ Ch(s, Len(s)) = "]"
          /\ \E i \in 1..(Len(s) - 2) :
                Ch(s, i) = "[" /\ DigitsAt(s, i + 1, Len(s) - 1)
    THEN CHOOSE i \in 1..(Len(s) - 2) :
            Ch(s, i) = "[" /\ DigitsAt(s, i + 1, Len(s) - 1)
    ELSE 0

\* the renaming left out: the name is looked up as it was read
strip_array_notation_Skipped(field_name) == field_name

\* re.sub(r'\[\d+\]$', '', field_name): "$" matches at the end of the string
\* and also just before a line break that ends the string
strip_array_notation(field_name) ==
    IF IndexStart(field_name) > 0
    THEN SubSeq(field_name, 1, IndexStart(field_name) - 1)
    ELSE IF Len(field_name) > 0 /\ Ch(field_name, Len(field_name)) = "\n"
              /\ IndexStart(SubSeq(field_name, 1, Len(field_name) - 1)) > 0
         THEN SubSeq(field_name, 1,
                     IndexStart(SubSeq(field_name, 1, Len(field_name) - 1)) - 1)
              \o "\n"
         ELSE field_name

\* self.field_mapping.get(clean_field_name, clean_field_name)
mapped_name(clean_field_name) ==
    IF clean_field_name \in DOMAIN field_mapping
    THEN field_mapping[clean_field_name]
    ELSE clean_field_name

system_markers ==
    <<"hidden", "sid", "call_id", "form_id", "version", "reader", "sign">>

\* the markers compared without .lower()
is_system_field_CaseSensitive(clean_field_name) ==
    \E i \in 1..Len(system_markers) :
        Contains(clean_field_name, system_markers[i])

\* the markers without 'sign'
is_system_field_SignKept(clean_field_name) ==
    \E lowered \in {Lower(clean_field_name)} :
        \E i \in 1..(Len(system_markers) - 1) :
            Contains(lowered, system_markers[i])

\* any(x in clean_field_name.lower() for x in [...])
is_system_field(clean_field_name) ==
    \E lowered \in {Lower(clean_field_name)} :
        \E i \in 1..Len(system_markers) :
            Contains(lowered, system_markers[i])

\* one pass of the loop body over the entry <<field_name, field_value>>
clean_entry(cleaned, entry) ==
    Only({IF field_value = "" \/ stripped = ""
          THEN cleaned
          ELSE IF is_system_field(clean_field_name)
               THEN cleaned
               ELSE Put(cleaned, mapped_name(clean_field_name), stripped) :
             field_value \in {entry[2]},
             stripped \in {Strip(entry[2])},
             clean_field_name \in {strip_array_notation(entry[1])}})

RECURSIVE clean_loop(_, _)
clean_loop(cleaned, rest) ==
    IF rest = <<>> THEN cleaned
    ELSE Only({clean_loop(next, Tail(rest)) :
                  next \in {clean_entry(cleaned, Head(rest))}})

clean_and_map_form_fields(fields) == clean_loop(<<>>, fields)

(***************************************************************************)
(* Extractor.consolidate_duplicate_fields                                  *)
(***************************************************************************)
\* field[:-4]
base_field_of(field) == SubSeq(field, 1, Len(field) - 4)

RECURSIVE partition_loop(_, _)
\* the first loop: acc = <<consolidated, alt_fields>>
partition_loop(acc, rest) ==
    IF rest = <<>> THEN acc
    ELSE LET field == Head(rest)[1]
             value == Head(rest)[2]
         IN  Only({partition_loop(next, Tail(rest)) :
                      next \in {IF EndsWith(field, "_alt")
                                THEN <<acc[1],
                                       Put(acc[2], base_field_of(field), value)>>
                                ELSE <<Put(acc[1], field, value), acc[2]>>}})

RECURSIVE alt_loop(_, _)
\* the second loop: an alt value fills a main field that is absent or empty
alt_loop(consolidated, alts) ==
    IF alts = <<>> THEN consolidated
    ELSE LET base_field == Head(alts)[1]
             alt_value == Head(alts)[2]
         IN  Only({alt_loop(next, Tail(alts)) :
                      next \in {IF ~Has(consolidated, base_field)
                                      \/ Get(consolidated, base_field, "") = ""
                                THEN Put(consolidated, base_field, alt_value)
                                ELSE consolidated}})

consolidate_duplicate_fields(cleaned) ==
    Only({alt_loop(parts[1], parts[2]) :
             parts \in {partition_loop(<<<<>>, <<>>>>, cleaned)}})

(***************************************************************************)
(* Extractor.extract_contextual_information                                *)
(***************************************************************************)
\* re.search(phrase, raw_text, re.IGNORECASE) for a literal lower-case phrase,
\* given lowered = raw_text.lower()
search_ic(phrase, lowered) == Contains(lowered, phrase)

\* context.get(k, default)
CtxGet(context, k, default) ==
    IF k \in DOMAIN context THEN context[k] ELSE default

NoKeys == [k \in {} |-> ""]

agm_phrase == "annual general meeting"

\* the length of the match of \d{1,2}[/-]\d{1,2}[/-]\d{4} that starts at q,
\* or 0: the two-digit alternatives are tried first (greedy)
date_len_at(text, q) ==
    LET sep(i) == i <= Len(text) /\ Ch(text, i) \in {"/", "-"}
        fits(a, b) ==
            /\ DigitsAt(text, q, q + a - 1)
            /\ sep(q + a)
            /\ DigitsAt(text, q + a + 1, q + a + b)
            /\ sep(q + a + b + 1)
            /\ DigitsAt(text, q + a + b + 2, q + a + b + 5)
    IN  IF fits(2, 2) THEN 10
        ELSE IF fits(2, 1) THEN 9
        ELSE IF fits(1, 2) THEN 9
        ELSE IF fits(1, 1) THEN 8
        ELSE 0

\* ".*?" from s up to q: no character of text[s..q-1] is a line break
same_line(text, s, q) == \A k \in s..(q - 1) : Ch(text, k) # "\n"

\* the phrase starts at p and the pattern matches from there
agm_match_from(text, lowered, p) ==
    /\ p + Len(agm_phrase) - 1 <= Len(text)
    /\ SubSeq(lowered, p, p + Len(agm_phrase) - 1) = agm_phrase
    /\ \E q \in (p + Len(agm_phrase))..Len(text) :
          date_len_at(text, q) > 0 /\ same_line(text, p + Len(agm_phrase), q)

\* re.search(r'annual general meeting.*?(\d{1,2}[/-]\d{1,2}[/-]\d{4})', ...):
\* group(1) of the leftmost match, or "" when there is no match
agm_search(text, lowered) ==
    LET Min(S) == CHOOSE i \in S : \A j \in S : i <= j
        dates_from(s) ==
            {i \in s..Len(text) :
                date_len_at(text, i) > 0 /\ same_line(text, s, i)}
    IN  Only({IF starts = {} THEN ""
              ELSE Only({SubSeq(text, q, q + date_len_at(text, q) - 1) :
                            q \in {Min(dates_from(Min(starts)
                                                  + Len(agm_phrase)))}}) :
                 starts \in {{p \in 1..Len(text) :
                                 agm_match_from(text, lowered, p)}}})

\* the first two branches in the other order
appointment_type_of_Swapped(lowered) ==
    IF search_ic("reappointment", lowered) THEN "Reappointment"
    ELSE IF search_ic("first appointment", lowered) THEN "First Appointment"
    ELSE IF search_ic("casual vacancy", lowered) THEN "Casual Vacancy"
    ELSE "Unknown"

appointment_type_of(lowered) ==
    IF search_ic("first appointment", lowered) THEN "First Appointment"
    ELSE IF search_ic("reappointment", lowered) THEN "Reappointment"
    ELSE IF search_ic("casual vacancy", lowered) THEN "Casual Vacancy"
    ELSE "Unknown"

company_type_of(lowered) ==
    IF search_ic("private limited", lowered)
    THEN "company_type" :> "Private Limited Company"
    ELSE IF search_ic("public limited", lowered)
    THEN "company_type" :> "Public Limited Company"
    ELSE IF search_ic("one person company", lowered)
    THEN "company_type" :> "One Person Company"
    ELSE NoKeys

regulatory_sections_of(lowered) ==
    (IF search_ic("section 139", lowered)
     THEN <<"Section 139 - Appointment of Auditors">> ELSE <<>>)
    \o (IF search_ic("section 140", lowered)
        THEN <<"Section 140 - Removal of Auditors">> ELSE <<>>)

\* agm_conducted set as soon as the phrase occurs, with or without a date
agm_context_of_PhraseOnly(text, lowered) ==
    Only({("agm_conducted" :> search_ic(agm_phrase, lowered))
          @@ (IF agm_date # "" THEN "agm_date" :> agm_date ELSE NoKeys) :
             agm_date \in {agm_search(text, lowered)}})

agm_context_of(text, lowered) ==
    Only({IF agm_date # ""
          THEN ("agm_conducted" :> TRUE) @@ ("agm_date" :> agm_date)
          ELSE "agm_conducted" :> FALSE :
             agm_date \in {agm_search(text, lowered)}})

extract_contextual_information(text) ==
    Only({("appointment_type" :> appointment_type_of(lowered))
          @@ company_type_of(lowered)
          @@ ("regulatory_sections" :> regulatory_sections_of(lowered))
          @@ agm_context_of(text, lowered)
          @@ (IF search_ic("chartered accountant", lowered)
              THEN "auditor_qualification" :> "Chartered Accountant"
              ELSE NoKeys)
          @@ ("joint_auditors" :> search_ic("joint auditor", lowered)) :
             lowered \in {Lower(text)}})

(***************************************************************************)
(* Extractor._build_address, _parse_attachments, _extract_narrative_points *)
(***************************************************************************)
\* fields.get(k) is truthy: the key is present with a non-empty value
Truthy(fields, k) == Get(fields, k, "") # ""

RECURSIVE Join(_, _)
\* sep.join(parts)
Join(parts, sep) ==
    IF parts = <<>> THEN ""
    ELSE IF Len(parts) = 1 THEN parts[1]
    ELSE parts[1] \o sep \o Join(Tail(parts), sep)

\* city and state appended in the other order
build_address_StateFirst(fields, prefix) ==
    LET part(k) == IF Truthy(fields, prefix \o k)
                   THEN <<Get(fields, prefix \o k, "")>> ELSE <<>>
        address_parts ==
            part("_address_line1") \o part("_address_line2")
            \o part("_address_line3") \o part("_state") \o part("_city")
            \o part("_pincode")
    IN  IF address_parts # <<>> THEN Join(address_parts, ", ")
        ELSE "Not specified"

build_address(fields, prefix) ==
    LET part(k) == IF Truthy(fields, prefix \o k)
                   THEN <<Get(fields, prefix \o k, "")>> ELSE <<>>
        address_parts ==
            part("_address_line1") \o part("_address_line2")
            \o part("_address_line3") \o part("_city") \o part("_state")
            \o part("_pincode")
    IN  IF address_parts # <<>> THEN Join(address_parts, ", ")
        ELSE "Not specified"

RECURSIVE SplitOn(_, _)
\* s.split(c) for a one-character separator c
SplitOn(s, c) ==
    IF \E i \in 1..Len(s) : Ch(s, i) = c
    THEN Only({<<SubSeq(s, 1, i - 1)>>
               \o Only({SplitOn(rest, c) :
                           rest \in {SubSeq(s, i + 1, Len(s))}}) :
                  i \in {CHOOSE j \in 1..Len(s) :
                            Ch(s, j) = c /\ \A k \in 1..(j - 1) : Ch(s, k) # c}})
    ELSE <<s>>

RECURSIVE StripAndDrop(_)
\* [att.strip() for att in pieces if att.strip()]
StripAndDrop(pieces) ==
    IF pieces = <<>> THEN <<>>
    ELSE Only({(IF att # "" THEN <<att>> ELSE <<>>) \o StripAndDrop(rest) :
                  att \in {Strip(Head(pieces))}, rest \in {Tail(pieces)}})

parse_attachments(attachments_str) ==
    IF attachments_str = "" THEN <<>>
    ELSE Only({StripAndDrop(pieces) :
                  pieces \in {SplitOn(attachments_str, ",")}})

extract_narrative_points(fields, context) ==
    (IF Truthy(fields, "company_name")
     THEN <<"The company " \o Get(fields, "company_name", "")
            \o " has appointed an auditor">>
     ELSE <<>>)
    \o (IF CtxGet(context, "appointment_type", "") # ""
        THEN <<"This is a " \o Lower(context["appointment_type"])>>
        ELSE <<>>)
    \o (IF Truthy(fields, "auditor_firm_name")
        THEN <<"The appointed auditor is "
               \o Get(fields, "auditor_firm_name", "")>>
        ELSE <<>>)
    \o (IF CtxGet(context, "joint_auditors", FALSE)
        THEN <<"Joint auditors have been appointed">>
        ELSE <<>>)
    \o (IF Truthy(fields, "audit_period_from")
            /\ Truthy(fields, "audit_period_to")
        THEN <<"Audit period is from " \o Get(fields, "audit_period_from", "")
               \o " to " \o Get(fields, "audit_period_to", "")>>
        ELSE <<>>)
    \o (IF Truthy(fields, "number_of_financial_years")
        THEN <<"Appointment covers "
               \o Get(fields, "number_of_financial_years", "")
               \o " financial year(s)">>
        ELSE <<>>)
    \o (IF CtxGet(context, "agm_conducted", FALSE)
            /\ CtxGet(context, "agm_date", "") # ""
        THEN <<"Annual General Meeting was conducted on "
               \o context["agm_date"]>>
        ELSE <<>>)
    \o (IF Truthy(fields, "form_date")
        THEN <<"Form was filed on " \o Get(fields, "form_date", "")>>
        ELSE <<>>)

(***************************************************************************)
(* Extractor.create_llm_ready_summary_data                                 *)
(***************************************************************************)
NotSpecified == "Not specified"

\* any('sign' in k.lower() for k in fields.keys())
has_sign_key(fields) ==
    \E i \in 1..Len(fields) : Contains(Lower(fields[i][1]), "sign")

digital_signature_of(fields) ==
    IF has_sign_key(fields) THEN "Present" ELSE "Not verified"

summary_template ==
    [executive_summary |->
        "This ADT-1 form represents the {appointment_nature} of {auditor_firm_name} as auditor for {company_name} (CIN: {company_cin}) for the financial period from {audit_period_start} to {audit_period_end}.",
     key_parties |-> "Company: {company_name}, Auditor: {auditor_firm_name}",
     timeline |->
        "Appointment effective from {appointment_date}, covering {financial_years_count} financial year(s)",
     compliance_status |->
        "Form filed on {form_filing_date} with certificate serial {certificate_serial}"]

\* the date of the text preferred to the date of the form
agm_date_of_TextFirst(fields, context) ==
    CtxGet(context, "agm_date", Get(fields, "agm_date", NotSpecified))

\* fields.get('agm_date', context.get('agm_date', 'Not specified'))
agm_date_of(fields, context) ==
    Get(fields, "agm_date", CtxGet(context, "agm_date", NotSpecified))

create_llm_ready_summary_data(fields, text) ==
    LET assemble(context) ==
        [document_type |-> "ADT-1 Form - Notice of Auditor Appointment",
         summary_context |->
            [purpose |->
                "This document notifies the Registrar of Companies about the appointment of an auditor",
             legal_framework |-> "Filed under the Companies Act, 2013",
             appointment_nature |->
                CtxGet(context, "appointment_type", "Unknown"),
             compliance_sections |->
                CtxGet(context, "regulatory_sections", <<>>)],
         company_information |->
            [name |-> Get(fields, "company_name", NotSpecified),
             cin |-> Get(fields, "company_cin", NotSpecified),
             type |-> CtxGet(context, "company_type", NotSpecified),
             email |-> Get(fields, "company_email", NotSpecified),
             address |-> build_address(fields, "company"),
             state |-> Get(fields, "company_state", NotSpecified),
             pincode |-> Get(fields, "company_pincode", NotSpecified)],
         auditor_information |->
            [firm_name |-> Get(fields, "auditor_firm_name", NotSpecified),
             pan |-> Get(fields, "auditor_pan", NotSpecified),
             membership_number |->
                Get(fields, "auditor_membership_number", NotSpecified),
             email |-> Get(fields, "auditor_email", NotSpecified),
             address |-> build_address(fields, "auditor"),
             qualification |->
                CtxGet(context, "auditor_qualification", NotSpecified),
             number_of_auditors |-> Get(fields, "number_of_auditors", "1"),
             joint_appointment |-> CtxGet(context, "joint_auditors", FALSE)],
         appointment_details |->
            [appointment_date |-> Get(fields, "appointment_date", NotSpecified),
             audit_period_start |->
                Get(fields, "audit_period_from", NotSpecified),
             audit_period_end |-> Get(fields, "audit_period_to", NotSpecified),
             financial_years_count |->
                Get(fields, "number_of_financial_years", NotSpecified),
             agm_date |-> agm_date_of(fields, context),
             agm_conducted |-> CtxGet(context, "agm_conducted", FALSE),
             resolution_number |->
                Get(fields, "resolution_number", NotSpecified),
             director_din |-> Get(fields, "director_din", NotSpecified)],
         compliance_information |->
            [form_filing_date |->
                Get(fields, "form_date",
                    Get(fields, "current_date", NotSpecified)),
             receipt_date |-> Get(fields, "receipt_date", NotSpecified),
             certificate_serial |->
                Get(fields, "certificate_serial_number", NotSpecified),
             attachments |-> parse_attachments(Get(fields, "attachments", "")),
             digital_signature |-> digital_signature_of(fields)],
         key_narrative_points |-> extract_narrative_points(fields, context),
         summary_template |-> summary_template]
    IN  Only({assemble(context) :
                 context \in {extract_contextual_information(text)}})

(***************************************************************************)
(* Extractor.generate_llm_prompt_data and the final structure              *)
(***************************************************************************)
SampleLen == 1000

\* the values each prompt interpolates, in the order of the prompt text (the
\* fixed wording between them is left out)
generate_llm_prompt_data(data) ==
    [executive_summary_prompt |->
        <<data.company_information.name, data.company_information.cin,
          data.auditor_information.firm_name,
          data.auditor_information.pan,
          data.summary_context.appointment_nature,
          data.appointment_details.audit_period_start,
          data.appointment_details.audit_period_end,
          data.appointment_details.financial_years_count,
          data.key_narrative_points>>,
     compliance_summary_prompt |->
        <<data.compliance_information.form_filing_date,
          data.compliance_information.certificate_serial,
          data.summary_context.legal_framework,
          Join(data.summary_context.compliance_sections, ", "),
          data.compliance_information.digital_signature,
          Len(data.compliance_information.attachments)>>,
     business_summary_prompt |->
        <<data.company_information.name, data.company_information.type,
          data.company_information.state,
          data.auditor_information.firm_name,
          IF data.auditor_information.joint_appointment
          THEN "Yes" ELSE "No",
          data.appointment_details.audit_period_start,
          data.appointment_details.audit_period_end,
          data.appointment_details.agm_date>>]

\* the two counts of extraction_metadata taken from each other's dict
final_data_of_CountsSwapped(fields_read, text_read, consolidated, data) ==
    [extraction_metadata |->
        [extraction_purpose |-> "LLM Summary Generation",
         total_fields_extracted |-> Len(consolidated),
         processed_fields |-> Len(fields_read)],
     structured_data |-> data,
     llm_prompts |-> generate_llm_prompt_data(data),
     raw_fields |-> consolidated,
     raw_text_sample |-> text_read]

\* the final structure of extract_for_llm_summary; the timestamp and the
\* file name of extraction_metadata come from the clock and the path, and no
\* step reads them
final_data_of(fields_read, text_read, consolidated, data) ==
    [extraction_metadata |->
        [extraction_purpose |-> "LLM Summary Generation",
         total_fields_extracted |-> Len(fields_read),
         processed_fields |-> Len(consolidated)],
     structured_data |-> data,
     llm_prompts |-> generate_llm_prompt_data(data),
     raw_fields |-> consolidated,
     raw_text_sample |->
        IF Len(text_read) > SampleLen
        THEN SubSeq(text_read, 1, SampleLen) \o "..."
        ELSE text_read]

(***************************************************************************)
(* Summary.generate_summary                                                *)
(***************************************************************************)
\* s.split()[0] of a string that holds a token; "" when it holds none
FirstToken(s) ==
    Only({IF \E i \in 1..Len(t) : IsSpace(Ch(t, i))
          THEN SubSeq(t, 1,
                      (CHOOSE i \in 1..Len(t) :
                          IsSpace(Ch(t, i))
                          /\ \A k \in 1..(i - 1) : ~IsSpace(Ch(t, k))) - 1)
          ELSE t :
             t \in {LStrip(s)}})

\* compliance_sections[0] read with a fallback: no section, no error
generate_summary_Lenient(data) ==
    LET structured_data == data.structured_data
        context == structured_data.summary_context
    IN  [ok |-> TRUE,
         text |->
            structured_data.company_information.name
            \o " appointment was formalized under "
            \o (IF context.compliance_sections = <<>> THEN "N/A"
                ELSE context.compliance_sections[1])]

\* the summary of a loaded record, or the error the method ends in
generate_summary(data) ==
    LET structured_data == data.structured_data
        company == structured_data.company_information
        auditor == structured_data.auditor_information
        appointment == structured_data.appointment_details
        compliance == structured_data.compliance_information
        context == structured_data.summary_context
    IN  IF FirstToken(compliance.form_filing_date) = ""
        THEN [ok |-> FALSE, text |-> "IndexError"]
        ELSE IF context.compliance_sections = <<>>
        THEN [ok |-> FALSE, text |-> "IndexError"]
        ELSE [ok |-> TRUE,
              text |->
                company.name \o " (CIN: " \o company.cin \o ") has appointed "
                \o auditor.firm_name \o " (PAN: " \o auditor.pan
                \o ") as auditors to fill a "
                \o Lower(context.appointment_nature)
                \o " . The appointment covers an audit period from "
                \o appointment.audit_period_start \o " to "
                \o appointment.audit_period_end \o ", spanning "
                \o appointment.financial_years_count
                \o " financial years. This "
                \o (IF auditor.joint_appointment THEN "joint " ELSE "")
                \o "appointment was formalized under "
                \o context.compliance_sections[1]
                \o " of the Companies Act, 2013, with the form filed on "
                \o FirstToken(compliance.form_filing_date)
                \o " (Certificate Serial: " \o compliance.certificate_serial
                \o ")."]

(***************************************************************************)
(* The documents of the model.  A document is what the two readers return  *)
(* for it: extract_form_fields_pypdf2 and get_raw_text catch every error   *)
(* and return what they collected, which may be nothing.                   *)
(***************************************************************************)
\* the sequences over S of length at most n
SeqsUpTo(S, n) == UNION {[1..k -> S] : k \in 0..n}

\* a dict has no key twice
DistinctKeys(d) == \A i, j \in 1..Len(d) : d[i][1] = d[j][1] => i = j

FieldSets(names, values, n) ==
    {d \in SeqsUpTo(names \X values, n) : DistinctKeys(d)}

\* raw identifiers around one canonical field: indexed, doubly indexed,
\* synonym, pass-through, system
FocusNames ==
    {"cityname_C", "cityname_C[0]", "cityname_C[0][1]", "City_C",
     "company_city_alt_alt", "cityname_C[0]\n", "DigitalSignature[0]"}

FocusValues == {"Pune", " Agra ", " "}

\* every identifier of the mapping table, and identifiers that carry a
\* system marker
SystemNames ==
    {"Hidden1", "SID", "call_id", "form_id[3]", "Version", "reader",
     "Sign_C", "cityname_C[0]\n[1]", "[7]"}

TableNames == DOMAIN field_mapping \cup SystemNames

TableValues == {"A1, B2 ,,C3"}

SampleFields ==
    <<<<"CompanyName_C[0]", "Acme Ltd">>, <<"PAN_C", "">>,
      <<"current_date", "01/04/2023 10:00">>>>

SampleText ==
    "Section 139: Joint Auditor, Chartered Accountant, Private Limited"

Fragments ==
    {"First Appointment ", "REAPPOINTMENT ", "casual vacancy ", "Section 139 ",
     "section 140 ", "Annual General Meeting on ", "12/05/2023 ", "\n"}

\* raw identifiers of the address parts, of both parties
AddressNames ==
    {"permaddress1a_C", "permaddress2a_C", "permaddress3a_C", "cityname_C",
     "statename_C", "pincode_C", "auditorcityname_C"}

AddressValues == {"12 MG Road", "411001"}

\* the AGM date as a form field, under its name and under its synonym
AgmFieldSets ==
    {<<>>, <<<<"agmdate_C", "01/02/2023">>>>,
     <<<<"DateAnnualGenMeet_D[0]", "03/04/2023">>>>}

AgmTexts ==
    {"", "Annual General Meeting on 12/05/2023 ",
     "ANNUAL GENERAL MEETING \n12/05/2023 ", "annual general meeting "}

RECURSIVE Concat(_)
Concat(parts) == IF parts = <<>> THEN "" ELSE Head(parts) \o Concat(Tail(parts))

Texts == {Concat(p) : p \in SeqsUpTo(Fragments, MaxFrags)}

Pdfs ==
    {[fields |-> f, text |-> ""] :
        f \in FieldSets(FocusNames, FocusValues, MaxFields)}
    \cup {[fields |-> f, text |-> ""] :
            f \in FieldSets(TableNames, TableValues, MaxTableFields)}
    \cup {[fields |-> f, text |-> t] : f \in {<<>>, SampleFields}, t \in Texts}
    \cup {[fields |-> f, text |-> ""] :
            f \in FieldSets(AddressNames, AddressValues, MaxFields)}
    \cup {[fields |-> f, text |-> t] : f \in AgmFieldSets, t \in AgmTexts}

BatchPdfs ==
    {[fields |-> <<>>, text |-> ""],
     [fields |-> SampleFields, text |-> SampleText],
     [fields |-> SampleFields, text |-> "REAPPOINTMENT "]}

Nothing == [none |-> TRUE]

(***************************************************************************)
(* Extractor.extract_for_llm_summary, step by step, on the document in     *)
(* hand.  Both the application (app.py main) and the loop of               *)
(* extractor.start run these steps.                                        *)
(***************************************************************************)
SingleIdle ==
    /\ form_fields = <<>>
    /\ raw_text = ""
    /\ cleaned_fields = <<>>
    /\ consolidated_fields = <<>>
    /\ llm_data = Nothing
    /\ final_data = Nothing
    /\ summary = Nothing

BatchIdle ==
    /\ pdf_files = <<>>
    /\ bpc = "off"
    /\ idx = 0
    /\ structured_dir = <<>>
    /\ summary_dir = <<>>
    /\ attempts = [extractor |-> <<>>, summary |-> <<>>]
    /\ failed = [extractor |-> {}, summary |-> {}]

\* the application is handed one uploaded document
Init ==
    /\ pdf \in Pdfs
    /\ pc = "start"
    /\ SingleIdle
    /\ BatchIdle

ExtractFormFields ==
    /\ pc = "start"
    /\ form_fields' = pdf.fields
    /\ pc' = "text"
    /\ UNCHANGED <<pdf, raw_text, cleaned_fields, consolidated_fields,
                   llm_data, final_data, summary>>
    /\ UNCHANGED batch_vars

GetRawText ==
    /\ pc = "text"
    /\ raw_text' = pdf.text
    /\ pc' = "clean"
    /\ UNCHANGED <<pdf, form_fields, cleaned_fields, consolidated_fields,
                   llm_data, final_data, summary>>
    /\ UNCHANGED batch_vars

CleanAndMap ==
    /\ pc = "clean"
    /\ cleaned_fields' = clean_and_map_form_fields(form_fields)
    /\ pc' = "consolidate"
    /\ UNCHANGED <<pdf, form_fields, raw_text, consolidated_fields, llm_data,
                   final_data, summary>>
    /\ UNCHANGED batch_vars

Consolidate ==
    /\ pc = "consolidate"
    /\ consolidated_fields' = consolidate_duplicate_fields(cleaned_fields)
    /\ pc' = "assemble"
    /\ UNCHANGED <<pdf, form_fields, raw_text, cleaned_fields, llm_data,
                   final_data, summary>>
    /\ UNCHANGED batch_vars

CreateLLMData ==
    /\ pc = "assemble"
    /\ llm_data' = create_llm_ready_summary_data(consolidated_fields, raw_text)
    /\ pc' = "final"
    /\ UNCHANGED <<pdf, form_fields, raw_text, cleaned_fields,
                   consolidated_fields, final_data, summary>>
    /\ UNCHANGED batch_vars

\* generate_llm_prompt_data and the final structure
BuildFinalData ==
    /\ pc = "final"
    /\ final_data' =
          final_data_of(form_fields, raw_text, consolidated_fields, llm_data)
    /\ pc' = "extracted"
    /\ UNCHANGED <<pdf, form_fields, raw_text, cleaned_fields,
                   consolidated_fields, llm_data, summary>>
    /\ UNCHANGED batch_vars

\* app.py: the record goes through a JSON file into Summary.generate_summary
GenerateSummary ==
    /\ bpc = "off"
    /\ pc = "extracted"
    /\ summary' = generate_summary(final_data)
    /\ pc' = "done"
    /\ UNCHANGED <<pdf, form_fields, raw_text, cleaned_fields,
                   consolidated_fields, llm_data, final_data>>
    /\ UNCHANGED batch_vars

Next ==
    \/ ExtractFormFields
    \/ GetRawText
    \/ CleanAndMap
    \/ Consolidate
    \/ CreateLLMData
    \/ BuildFinalData
    \/ GenerateSummary

Spec == Init /\ [][Next]_vars

(***************************************************************************)
(* The batch commands: extractor.start over pdf/, then summary.start over  *)
(* structured_data/.  The file of document d is named by d, its place in   *)
(* pdf_files: the names of one directory differ, and so do their stems.    *)
(***************************************************************************)
\* f with key k set to v
FilePut(f, k, v) == [x \in (DOMAIN f) \cup {k} |-> IF x = k THEN v ELSE f[x]]

\* the steps of extractor.start's loop body that can raise once the record
\* is extracted: opening the output file, and json.dump into the open file.
\* The prints of the body and of the handler write to one stream, which is
\* taken to accept them.
ExtractorRaisePoints == {"open", "dump"}

\* structured_data/ after the body for document d raised at `point`
dir_after_raise(dir, d, point) ==
    IF point = "open" THEN dir
    ELSE FilePut(dir, d, [complete |-> FALSE])

RECURSIVE SortedSeq(_)
SortedSeq(S) ==
    IF S = {} THEN <<>>
    ELSE LET m == CHOOSE x \in S : \A y \in S : x <= y
         IN  <<m>> \o SortedSeq(S \ {m})

\* sorted(structured_data_dir.glob("*.json"))
json_files == SortedSeq(DOMAIN structured_dir)

\* json.load and generate_summary on a file of structured_data/
summary_of_file(file) ==
    IF file.complete THEN generate_summary(file.data)
    ELSE [ok |-> FALSE, text |-> "JSONDecodeError"]

InitBatch ==
    /\ pdf = Nothing
    /\ pc = "off"
    /\ SingleIdle
    /\ pdf_files \in SeqsUpTo(BatchPdfs, MaxDocs)
    /\ bpc = "extractor"
    /\ idx = 0
    /\ structured_dir = <<>>
    /\ summary_dir = <<>>
    /\ attempts = [extractor |-> [d \in 1..Len(pdf_files) |-> 0],
                   summary |-> [d \in 1..Len(pdf_files) |-> 0]]
    /\ failed = [extractor |-> {}, summary |-> {}]

\* extractor.start finds no PDF and returns
ExtractorNoPdfs ==
    /\ bpc = "extractor"
    /\ pdf_files = <<>>
    /\ bpc' = "extractor_returned"
    /\ UNCHANGED <<pdf_files, idx, structured_dir, summary_dir, attempts,
                   failed>>
    /\ UNCHANGED single_vars

ExtractorBegin ==
    /\ bpc = "extractor"
    /\ pdf_files # <<>>
    /\ bpc' = "extractor_loop"
    /\ idx' = 1
    /\ UNCHANGED <<pdf_files, structured_dir, summary_dir, attempts, failed>>
    /\ UNCHANGED single_vars

\* the loop takes the next document: Extractor(pdf_path)
ExtractorTake ==
    /\ bpc = "extractor_loop"
    /\ pc = "off"
    /\ idx <= Len(pdf_files)
    /\ attempts' = [attempts EXCEPT !.extractor[idx] = @ + 1]
    /\ pdf' = pdf_files[idx]
    /\ pc' = "start"
    /\ form_fields' = <<>>
    /\ raw_text' = ""
    /\ cleaned_fields' = <<>>
    /\ consolidated_fields' = <<>>
    /\ llm_data' = Nothing
    /\ final_data' = Nothing
    /\ UNCHANGED <<summary, pdf_files, bpc, idx, structured_dir, summary_dir,
                   failed>>

\* the rest of the loop body runs to its end: the JSON file is written
ExtractorWrite ==
    /\ bpc = "extractor_loop"
    /\ pc = "extracted"
    /\ structured_dir' =
          FilePut(structured_dir, idx, [complete |-> TRUE, data |-> final_data])
    /\ idx' = idx + 1
    /\ pc' = "off"
    /\ UNCHANGED <<pdf, form_fields, raw_text, cleaned_fields,
                   consolidated_fields, llm_data, final_data, summary>>
    /\ UNCHANGED <<pdf_files, bpc, summary_dir, attempts, failed>>

\* the loop body raises and nothing catches it: start() ends there
ExtractorBodyRaises_Abort ==
    /\ bpc = "extractor_loop"
    /\ pc = "extracted"
    /\ failed' = [failed EXCEPT !.extractor = @ \cup {idx}]
    /\ bpc' = "raised"
    /\ pc' = "off"
    /\ UNCHANGED <<pdf, form_fields, raw_text, cleaned_fields,
                   consolidated_fields, llm_data, final_data, summary>>
    /\ UNCHANGED <<pdf_files, idx, structured_dir, summary_dir, attempts>>

\* the rest of the loop body raises: except Exception logs it and continues
ExtractorBodyRaises ==
    /\ bpc = "extractor_loop"
    /\ pc = "extracted"
    /\ \E point \in ExtractorRaisePoints :
          structured_dir' =
              dir_after_raise(structured_dir, idx, point)
    /\ failed' = [failed EXCEPT !.extractor = @ \cup {idx}]
    /\ idx' = idx + 1
    /\ pc' = "off"
    /\ UNCHANGED <<pdf, form_fields, raw_text, cleaned_fields,
                   consolidated_fields, llm_data, final_data, summary>>
    /\ UNCHANGED <<pdf_files, bpc, summary_dir, attempts>>

ExtractorEnd ==
    /\ bpc = "extractor_loop"
    /\ pc = "off"
    /\ idx > Len(pdf_files)
    /\ bpc' = "extractor_returned"
    /\ UNCHANGED <<pdf_files, idx, structured_dir, summary_dir, attempts,
                   failed>>
    /\ UNCHANGED single_vars

\* summary.start finds no JSON file and returns
SummaryNoJson ==
    /\ bpc = "extractor_returned"
    /\ json_files = <<>>
    /\ bpc' = "done"
    /\ UNCHANGED <<pdf_files, idx, structured_dir, summary_dir, attempts,
                   failed>>
    /\ UNCHANGED single_vars

SummaryBegin ==
    /\ bpc = "extractor_returned"
    /\ json_files # <<>>
    /\ bpc' = "summary_loop"
    /\ idx' = 1
    /\ UNCHANGED <<pdf_files, structured_dir, summary_dir, attempts, failed>>
    /\ UNCHANGED single_vars

\* the loop body runs to its end: the summary is written
SummaryBody ==
    /\ bpc = "summary_loop"
    /\ idx <= Len(json_files)
    /\ summary_of_file(structured_dir[json_files[idx]]).ok
    /\ attempts' = [attempts EXCEPT !.summary[json_files[idx]] = @ + 1]
    /\ summary_dir' =
          FilePut(summary_dir, json_files[idx],
                  summary_of_file(structured_dir[json_files[idx]]).text)
    /\ idx' = idx + 1
    /\ UNCHANGED <<pdf_files, bpc, structured_dir, failed>>
    /\ UNCHANGED single_vars

\* the loop body raises, in generate_summary or when the summary file is
\* written: except Exception logs it and the loop goes on
SummaryBodyRaises ==
    /\ bpc = "summary_loop"
    /\ idx <= Len(json_files)
    /\ attempts' = [attempts EXCEPT !.summary[json_files[idx]] = @ + 1]
    /\ failed' = [failed EXCEPT !.summary = @ \cup {json_files[idx]}]
    /\ idx' = idx + 1
    /\ UNCHANGED <<pdf_files, bpc, structured_dir, summary_dir>>
    /\ UNCHANGED single_vars

SummaryEnd ==
    /\ bpc = "summary_loop"
    /\ idx > Len(json_files)
    /\ bpc' = "done"
    /\ UNCHANGED <<pdf_files, idx, structured_dir, summary_dir, attempts,
                   failed>>
    /\ UNCHANGED single_vars

NextBatch ==
    \/ ExtractorNoPdfs
    \/ ExtractorBegin
    \/ ExtractorTake
    \/ ExtractFormFields
    \/ GetRawText
    \/ CleanAndMap
    \/ Consolidate
    \/ CreateLLMData
    \/ BuildFinalData
    \/ ExtractorWrite
    \/ ExtractorBodyRaises
    \/ ExtractorEnd
    \/ SummaryNoJson
    \/ SummaryBegin
    \/ SummaryBody
    \/ SummaryBodyRaises
    \/ SummaryEnd

\* a command that has a step to take takes it: the program is sequential
\* and no step waits
SpecBatch == InitBatch /\ [][NextBatch]_vars /\ WF_vars(NextBatch)

(***************************************************************************)
(* Positions.                                                              *)
(***************************************************************************)
Cleaned == pc \in {"consolidate", "assemble", "final", "extracted", "done"}

\* clean_and_map_form_fields has just returned
JustCleaned == pc = "consolidate"

\* consolidate_duplicate_fields has just returned
JustConsolidated == pc = "assemble"

Consolidated == pc \in {"assemble", "final", "extracted", "done"}

Assembled == pc \in {"final", "extracted", "done"}

(***************************************************************************)
(* C1.  Empty-input totality.                                              *)
(***************************************************************************)
AllSentinel(data) ==
    /\ \A f \in {"name", "cin", "type", "email", "address", "state", "pincode"} :
          data.company_information[f] = NotSpecified
    /\ \A f \in {"firm_name", "pan", "membership_number", "email", "address",
                 "qualification", "number_of_auditors"} :
          data.auditor_information[f] = NotSpecified
    /\ data.auditor_information.joint_appointment = FALSE
    /\ \A f \in {"appointment_date", "audit_period_start", "audit_period_end",
                 "financial_years_count", "agm_date", "resolution_number",
                 "director_din"} :
          data.appointment_details[f] = NotSpecified
    /\ data.appointment_details.agm_conducted = FALSE
    /\ \A f \in {"form_filing_date", "receipt_date", "certificate_serial",
                 "digital_signature"} :
          data.compliance_information[f] = NotSpecified
    /\ data.compliance_information.attachments = <<>>

\* C1: the pipeline on an empty raw field set and an empty raw text yields a
\* document whose every section field equals its sentinel default ("Not
\* specified", false, []) and whose key_narrative_points is the empty list.
C1_EmptyInputAllDefaults ==
    (Assembled /\ form_fields = <<>> /\ raw_text = "")
        => /\ AllSentinel(llm_data)
           /\ llm_data.key_narrative_points = <<>>

(***************************************************************************)
(* C2.  Idempotence of consolidation.                                      *)
(***************************************************************************)
\* C2: consolidating the consolidated field set again changes nothing, and no
\* key of the consolidated field set ends with "_alt".
C2_ConsolidateIdempotent ==
    Consolidated
        => /\ DictEq(consolidate_duplicate_fields(consolidated_fields),
                     consolidated_fields)
           /\ \A k \in Keys(consolidated_fields) : ~EndsWith(k, "_alt")

(***************************************************************************)
(* C3.  Suffix stripping.                                                  *)
(***************************************************************************)
\* name is X[d] for a digit string d
EndsInIndex(name) == IndexStart(name) > 0

\* the X of a name X[d]
WithoutIndex(name) == SubSeq(name, 1, IndexStart(name) - 1)

\* X carries no index of its own: it ends neither in [d] nor in [d] and a
\* line break
PlainIdentifier(x) ==
    /\ ~EndsInIndex(x)
    /\ ~(Len(x) > 0 /\ Ch(x, Len(x)) = "\n"
         /\ EndsInIndex(SubSeq(x, 1, Len(x) - 1)))

\* the raw field set with every entry X[d] renamed to X
Unindexed(fields) ==
    [i \in 1..Len(fields) |->
        IF EndsInIndex(fields[i][1])
        THEN <<WithoutIndex(fields[i][1]), fields[i][2]>>
        ELSE fields[i]]

\* the raw field set with every entry X[d] of a plain X renamed to X
UnindexedPlain(fields) ==
    [i \in 1..Len(fields) |->
        IF EndsInIndex(fields[i][1])
              /\ PlainIdentifier(WithoutIndex(fields[i][1]))
        THEN <<WithoutIndex(fields[i][1]), fields[i][2]>>
        ELSE fields[i]]

\* C3 as stated: the mapped field set, canonical names and values, is the one
\* the mapper gives when every entry X[d] is named X instead, whatever X is.
C3_IndexSuffixAnyIdentifier ==
    JustCleaned
        => cleaned_fields = clean_and_map_form_fields(Unindexed(form_fields))

\* C3 as amended: the mapped field set, canonical names and values, is the
\* one the mapper gives when every entry X[d], for X without an index of its
\* own, is named X instead.
C3_IndexSuffixPlainIdentifier ==
    JustCleaned
        => cleaned_fields
              = clean_and_map_form_fields(UnindexedPlain(form_fields))

C3_Witness ==
    /\ Cleaned
    /\ form_fields = <<<<"cityname_C[0]", "Pune">>>>
    /\ cleaned_fields = <<<<"company_city", "Pune">>>>

(***************************************************************************)
(* C4.  Blocklist.                                                         *)
(***************************************************************************)
ReservedSubstrings ==
    {"hidden", "sid", "call_id", "form_id", "version", "reader", "sign"}

\* the name contains a reserved substring, in any letter case
IsReserved(name) ==
    \E lowered \in {Lower(name)} :
        \E r \in ReservedSubstrings : Contains(lowered, r)

RECURSIVE WithoutReserved(_)
\* the raw field set without its entries of reserved name
WithoutReserved(fields) ==
    IF fields = <<>> THEN <<>>
    ELSE (IF IsReserved(Head(fields)[1]) THEN <<>> ELSE <<Head(fields)>>)
         \o WithoutReserved(Tail(fields))

\* C4: no key of the mapped field set and no key of the consolidated field set
\* contains a reserved substring, and the mapped field set is the one the raw
\* field set gives without its entries of reserved name.
C4_NoReservedNames ==
    /\ JustCleaned
          => /\ \A k \in Keys(cleaned_fields) : ~IsReserved(k)
             /\ cleaned_fields
                   = clean_and_map_form_fields(WithoutReserved(form_fields))
    /\ JustConsolidated
          => \A k \in Keys(consolidated_fields) : ~IsReserved(k)

C4_Witness ==
    /\ Consolidated
    /\ Len(form_fields) = 2
    /\ \E i \in 1..Len(form_fields) :
          IsReserved(form_fields[i][1]) /\ Strip(form_fields[i][2]) # ""
    /\ Len(consolidated_fields) = 1

(***************************************************************************)
(* C5.  Digital signature.                                                 *)
(***************************************************************************)
\* C5: the assembled document's digital_signature is "Not verified".
C5_SignatureNotVerified ==
    Assembled
        => llm_data.compliance_information.digital_signature = "Not verified"

C5_Witness ==
    /\ Assembled
    /\ \E i \in 1..Len(form_fields) :
          /\ Contains(Lower(form_fields[i][1]), "sign")
          /\ Strip(form_fields[i][2]) # ""
    /\ llm_data.compliance_information.digital_signature = "Not verified"

(***************************************************************************)
(* C6.  Alt merge.                                                         *)
(***************************************************************************)
\* C6: for every entry P_alt = v of the mapped field set, the consolidated
\* field set holds P = x when the mapped field set holds P with a non-empty
\* value x, and P = v otherwise.
C6_AltMerge ==
    Consolidated
        => \A i \in 1..Len(cleaned_fields) :
              LET field == cleaned_fields[i][1]
                  v == cleaned_fields[i][2]
                  P == SubSeq(field, 1, Len(field) - 4)
              IN  EndsWith(field, "_alt")
                    => /\ Has(consolidated_fields, P)
                       /\ Get(consolidated_fields, P, "")
                             = IF Get(cleaned_fields, P, "") # ""
                               THEN Get(cleaned_fields, P, "")
                               ELSE v

(***************************************************************************)
(* C7.  Appointment type precedence.                                       *)
(***************************************************************************)
\* C7: appointment_type is First Appointment when the text holds "first
\* appointment" in any letter case, else Reappointment when it holds
\* "reappointment", else Casual Vacancy when it holds "casual vacancy", else
\* Unknown.
C7_AppointmentTypePriority ==
    Assembled
        => llm_data.summary_context.appointment_nature
              = IF Contains(Lower(raw_text), "first appointment")
                THEN "First Appointment"
                ELSE IF Contains(Lower(raw_text), "reappointment")
                THEN "Reappointment"
                ELSE IF Contains(Lower(raw_text), "casual vacancy")
                THEN "Casual Vacancy"
                ELSE "Unknown"

C7_Witness ==
    /\ Assembled
    /\ Contains(Lower(raw_text), "first appointment")
    /\ Contains(Lower(raw_text), "reappointment")
    /\ Contains(Lower(raw_text), "casual vacancy")
    /\ llm_data.summary_context.appointment_nature = "First Appointment"

(***************************************************************************)
(* C8.  AGM extraction.                                                    *)
(***************************************************************************)
\* the places after an occurrence of the phrase, in any letter case
AfterAgmPhrase(text) ==
    {p + Len(agm_phrase) :
        p \in {i \in 1..Len(text) :
                  /\ i + Len(agm_phrase) - 1 <= Len(text)
                  /\ Lower(SubSeq(text, i, i + Len(agm_phrase) - 1))
                        = agm_phrase}}

\* the places of the date tokens that follow an occurrence of the phrase,
\* whatever lies in between
DatesAfterAgmPhrase(text) ==
    {q \in 1..Len(text) :
        /\ date_len_at(text, q) > 0
        /\ \E s \in AfterAgmPhrase(text) : s <= q}

\* C8: agm_conducted is true exactly when a date token follows the phrase
\* "annual general meeting" anywhere later in the text, line breaks in between
\* included; agm_date is then a date token that follows the phrase, and is
\* absent otherwise.
C8_AgmAcrossLines ==
    Assembled
        => /\ llm_data.appointment_details.agm_conducted
                 = (DatesAfterAgmPhrase(raw_text) # {})
           /\ ~Has(consolidated_fields, "agm_date")
                 => IF DatesAfterAgmPhrase(raw_text) # {}
                    THEN \E q \in DatesAfterAgmPhrase(raw_text) :
                            llm_data.appointment_details.agm_date
                               = SubSeq(raw_text, q,
                                        q + date_len_at(raw_text, q) - 1)
                    ELSE llm_data.appointment_details.agm_date = NotSpecified

(***************************************************************************)
(* C9.  The summary formatter on a record without compliance sections.     *)
(***************************************************************************)
\* C9: generate_summary on the extractor's record ends in an error when the
\* record's compliance_sections is empty, which is when the text mentions
\* neither "section 139" nor "section 140"; otherwise it returns a summary
\* that names the first listed section.
C9_SummaryNeedsSection ==
    (pc = "done")
        => LET sections == final_data.structured_data.summary_context
                               .compliance_sections
           IN  /\ (sections = <<>>)
                     = (/\ ~Contains(Lower(raw_text), "section 139")
                        /\ ~Contains(Lower(raw_text), "section 140"))
               /\ sections = <<>> => ~summary.ok
               /\ sections # <<>>
                     => summary.ok /\ Contains(summary.text, sections[1])

C9_Witness ==
    /\ pc = "done"
    /\ raw_text # ""
    /\ form_fields # <<>>
    /\ final_data.structured_data.summary_context.compliance_sections = <<>>
    /\ ~summary.ok

(***************************************************************************)
(* C10.  The batch loops go on after a failure.                            *)
(***************************************************************************)
Documents == 1..Len(pdf_files)

C10_Safety ==
    /\ bpc # "raised"
    /\ \A d \in DOMAIN attempts.extractor :
          attempts.extractor[d] <= 1 /\ attempts.summary[d] <= 1
    /\ bpc \in {"extractor_returned", "summary_loop", "done"}
          => \A d \in Documents :
                /\ attempts.extractor[d] = 1
                /\ d \notin failed.extractor
                      => /\ d \in DOMAIN structured_dir
                         /\ structured_dir[d].complete
                         /\ structured_dir[d].data.raw_text_sample
                               = pdf_files[d].text
                         /\ structured_dir[d].data.extraction_metadata
                                  .total_fields_extracted
                               = Len(pdf_files[d].fields)
    /\ bpc = "done"
          => \A j \in DOMAIN structured_dir :
                /\ attempts.summary[j] = 1
                /\ j \notin failed.summary
                      => /\ j \in DOMAIN summary_dir
                         /\ summary_dir[j]
                               = summary_of_file(structured_dir[j]).text

\* C10: each loop attempts every one of its documents exactly once, whichever
\* of them fail; a document that did not fail has its own output file; and
\* the run finishes without raising.
C10_BatchContinues == [](C10_Safety) /\ <>(bpc = "done")

C10_Witness ==
    /\ bpc = "done"
    /\ Len(pdf_files) = 2
    /\ failed.extractor = {1}
    /\ 1 \notin DOMAIN structured_dir
    /\ 2 \in DOMAIN summary_dir
    /\ attempts.extractor[2] = 1

(***************************************************************************)
(* C11.  The address builder.                                              *)
(***************************************************************************)
AddressParts ==
    <<"_address_line1", "_address_line2", "_address_line3", "_city", "_state",
      "_pincode">>

\* the non-empty values among the six parts of a party, in the order of the
\* parts
PresentParts(fields, prefix) ==
    SelectSeq([i \in 1..Len(AddressParts) |->
                  Get(fields, prefix \o AddressParts[i], "")],
              LAMBDA v : v # "")

AddressAsClaimed(fields, prefix, address) ==
    IF PresentParts(fields, prefix) = <<>>
    THEN address = NotSpecified
    ELSE /\ address = Join(PresentParts(fields, prefix), ", ")
         /\ address # NotSpecified

C12_AgmDateResolution ==
    Assembled
        => llm_data.appointment_details.agm_date
              = IF Has(consolidated_fields, "agm_date")
                THEN Get(consolidated_fields, "agm_date", "")
                ELSE IF llm_data.appointment_details.agm_conducted
                THEN agm_search(raw_text, Lower(raw_text))
                ELSE NotSpecified

C12_Witness ==
    /\ Assembled
    /\ Has(consolidated_fields, "agm_date")
    /\ llm_data.appointment_details.agm_conducted
    /\ agm_search(raw_text, Lower(raw_text)) = "12/05/2023"
    /\ llm_data.appointment_details.agm_date = "03/04/2023"

(***************************************************************************)
(* C13.  The narrative points: once each, when triggered, in order.        *)
(***************************************************************************)
NarrativeOpenings ==
    <<"The company ", "This is a ", "The appointed auditor is ",
      "Joint auditors have been appointed", "Audit period is from ",
      "Appointment covers ", "Annual General Meeting was conducted on ",
      "Form was filed on ">>

StartsWith(s, t) == Len(s) >= Len(t) /\ SubSeq(s, 1, Len(t)) = t

\* which of the eight sentences a narrative point is, or 0
SentenceOf(point) ==
    IF \E k \in 1..Len(NarrativeOpenings) :
          StartsWith(point, NarrativeOpenings[k])
    THEN CHOOSE k \in 1..Len(NarrativeOpenings) :
            StartsWith(point, NarrativeOpenings[k])
    ELSE 0

KnownAppointmentTypes == {"First Appointment", "Reappointment", "Casual Vacancy"}

\* the triggering condition of sentence k, read from the field set and the
\* assembled document
Triggered(k, fields, data) ==
    CASE k = 1 -> Get(fields, "company_name", "") # ""
      [] k = 2 -> data.summary_context.appointment_nature
                     \in KnownAppointmentTypes
      [] k = 3 -> Get(fields, "auditor_firm_name", "") # ""
      [] k = 4 -> data.auditor_information.joint_appointment
      [] k = 5 -> /\ Get(fields, "audit_period_from", "") # ""
                  /\ Get(fields, "audit_period_to", "") # ""
      [] k = 6 -> Get(fields, "number_of_financial_years", "") # ""
      [] k = 7 -> /\ data.appointment_details.agm_conducted
                  /\ data.appointment_details.agm_date # NotSpecified
      [] k = 8 -> data.compliance_information.form_filing_date # NotSpecified
      [] OTHER -> FALSE

\* C13: every narrative point is one of the eight sentences, its triggering
\* condition holds, and the points are in the fixed order of the sentences,
\* none twice.
C13_NarrativeOrder ==
    Assembled
        => LET points == llm_data.key_narrative_points
           IN  /\ \A i \in 1..Len(points) :
                     Triggered(SentenceOf(points[i]), consolidated_fields,
                               llm_data)
               /\ \A i, j \in 1..Len(points) :
                     i < j => SentenceOf(points[i]) < SentenceOf(points[j])

(***************************************************************************)
(* C14.  The appointment type sentence.                                    *)
(***************************************************************************)
\* C14: the sentence "This is a {type}" is among the narrative points only
\* when the appointment type is First Appointment, Reappointment or Casual
\* Vacancy.
C14_TypeSentenceOnlyWhenKnown ==
    Assembled
        => ((\E i \in 1..Len(llm_data.key_narrative_points) :
                SentenceOf(llm_data.key_narrative_points[i]) = 2)
            => llm_data.summary_context.appointment_nature
                  \in KnownAppointmentTypes)

(***************************************************************************)
(* C15.  The form filing sentence.                                         *)
(***************************************************************************)
\* C15: "Form was filed on {date}" is among the narrative points exactly when
\* form_filing_date of the assembled document is not "Not specified", and
\* {date} is then that value.
C15_FiledSentenceIffFilingDate ==
    Assembled
        => LET points == llm_data.key_narrative_points
               date == llm_data.compliance_information.form_filing_date
           IN  /\ (\E i \in 1..Len(points) : SentenceOf(points[i]) = 8)
                     = (date # NotSpecified)
               /\ \A i \in 1..Len(points) :
                     SentenceOf(points[i]) = 8
                        => points[i] = "Form was filed on " \o date

(***************************************************************************)
(* C16.  Two raw identifiers of one canonical name.                        *)
(***************************************************************************)
CanonicalNameOf(name) == mapped_name(strip_array_notation(name))

\* the entry has a non-blank value and no reserved name
Kept(entry) == Strip(entry[2]) # "" /\ ~IsReserved(entry[1])

\* C16: when two kept entries of the raw field set have the same canonical
\* name, the mapped field set holds for that name the trimmed value of the one
\* that comes last in iteration order, alone.
C16_LastWriteWins ==
    JustCleaned
        => \A i, j \in 1..Len(form_fields) :
              (/\ i < j
               /\ Kept(form_fields[i])
               /\ Kept(form_fields[j])
               /\ CanonicalNameOf(form_fields[i][1])
                     = CanonicalNameOf(form_fields[j][1])
               /\ \A k \in (j + 1)..Len(form_fields) :
                     Kept(form_fields[k])
                        => CanonicalNameOf(form_fields[k][1])
                              # CanonicalNameOf(form_fields[j][1]))
                 => /\ Has(cleaned_fields, CanonicalNameOf(form_fields[j][1]))
                    /\ Get(cleaned_fields,
                           CanonicalNameOf(form_fields[j][1]), "")
                          = Strip(form_fields[j][2])

C16_Witness ==
    /\ JustCleaned
    /\ form_fields = <<<<"cityname_C", "Pune">>, <<"cityname_C[0]", " Agra ">>>>
    /\ cleaned_fields = <<<<"company_city", "Agra">>>>

(***************************************************************************)
(* C17.  The two counts of extraction_metadata.                            *)
(***************************************************************************)
\* extract_for_llm_summary has returned
Extracted == pc \in {"extracted", "done"}

\* C17: processed_fields, the number of consolidated fields, is at most
\* total_fields_extracted, the number of raw fields; mapping and
\* consolidation each return at most as many entries as they are given.
C17_ProcessedAtMostExtracted ==
    /\ Extracted
          => /\ final_data.extraction_metadata.processed_fields
                   <= final_data.extraction_metadata.total_fields_extracted
             /\ final_data.extraction_metadata.processed_fields
                   = Len(consolidated_fields)
             /\ final_data.extraction_metadata.total_fields_extracted
                   = Len(form_fields)
    /\ Cleaned => Len(cleaned_fields) <= Len(form_fields)
    /\ Consolidated => Len(consolidated_fields) <= Len(cleaned_fields)

C17_Witness ==
    /\ Extracted
    /\ final_data.extraction_metadata.total_fields_extracted = 2
    /\ final_data.extraction_metadata.processed_fields = 1
    /\ Len(cleaned_fields) = 2

====
